---- MODULE Spec2Model ----
(***************************************************************************)
(* Model of app.py: the sold-count and price normalizers, the ranking     *)
(* stage of main, the 80/20 keyword and cost-target reports, the profit   *)
(* calculator and the page loop of scrape_mercado_livre.                  *)
(*                                                                         *)
(* A Python str is a sequence of one-character strings.  A Python float   *)
(* that is truncated by int() is an IEEE-754 binary64 value m / 2^t with  *)
(* a 53-bit significand m, computed with round-half-to-even on natural    *)
(* numbers held as little-endian sequences of 15-bit limbs.  Money values *)
(* that are only added, averaged and compared are exact decimals.         *)
(***************************************************************************)
EXTENDS Integers, Sequences, FiniteSets, TLC

VARIABLES
    texto,          \* clean_sold_data / format_sold_data_for_display: the argument
    sold_pc,        \* position of the sold-count normalizer run
    sold_num,       \* value returned by clean_sold_data(texto)
    sold_disp,      \* value returned by format_sold_data_for_display(texto)
    preco,          \* a scraped record's 'Preço' string
    preco_pc,       \* position of the price normalizer run
    preco_limpo,    \* the record's 'Preço Limpo' after main's step 1
    df_results,     \* main: the scraped table, one record per row, row label = position
    sort_option,    \* main: the selectbox value
    main_pc,        \* main: position in the button handler
    df_sorted,      \* main: row labels of df_results in display order
    keywords_8020,  \* main: the (word, count) pairs of analyze_keywords_8020
    df_top_vendas,  \* main: row labels of the top subset, best seller first
    cost_report,    \* main: (avg_price, cost_80, cost_100) of analyze_cost_price
    selling_price,  \* main: the sidebar input PV, in cents
    cost_price,     \* main: the sidebar input CP, in cents
    profit_pc,      \* position of the profit calculator run
    profit_results, \* main: value returned by calculate_profit(selling_price, cost_price)
    pages,          \* scrape_mercado_livre: the argument pages
    page_num,       \* scrape_mercado_livre: the loop variable
    scrape_pc,      \* scrape_mercado_livre: position in the page loop
    response,       \* scrape_mercado_livre: outcome of the request in progress
    all_results,    \* scrape_mercado_livre: the records appended so far
    messages,       \* the st.warning / st.info / st.error boxes shown, in order
    sleeps,         \* number of time.sleep(DELAY_SECONDS) calls made
    requested,      \* history: the page of every requests.get call, in order
    served,         \* history: the outcome of every requests.get call, in order
    returned,       \* the rows of the DataFrame scrape_mercado_livre returned
    now,            \* st.cache_data: the clock, in seconds
    cache,          \* st.cache_data: the entry kept for every key
    heap,           \* the DataFrame objects handed to main, by object id
    calls,          \* history: every call of the cached function, in order
    cache_pc        \* position of the run of main that holds the newest DataFrame

soldVars == <<texto, sold_pc, sold_num, sold_disp>>
precoVars == <<preco, preco_pc, preco_limpo>>
mainVars == <<df_results, sort_option, main_pc, df_sorted, keywords_8020, df_top_vendas, cost_report>>
profitVars == <<selling_price, cost_price, profit_pc, profit_results>>
scrapeVars == <<pages, page_num, scrape_pc, response, all_results, messages, sleeps, requested, served, returned>>
cacheVars == <<now, cache, heap, calls, cache_pc>>
vars == <<soldVars, precoVars, mainVars, profitVars, scrapeVars, cacheVars>>

(***************************************************************************)
(* Python str operations                                                   *)
(***************************************************************************)
DigitChars == {"0", "1", "2", "3", "4", "5", "6", "7", "8", "9"}

DigitVal(c) ==
    CASE c = "0" -> 0 [] c = "1" -> 1 [] c = "2" -> 2 [] c = "3" -> 3
      [] c = "4" -> 4 [] c = "5" -> 5 [] c = "6" -> 6 [] c = "7" -> 7
      [] c = "8" -> 8 [] c = "9" -> 9

DigitChar(d) ==
    CASE d = 0 -> "0" [] d = 1 -> "1" [] d = 2 -> "2" [] d = 3 -> "3"
      [] d = 4 -> "4" [] d = 5 -> "5" [] d = 6 -> "6" [] d = 7 -> "7"
      [] d = 8 -> "8" [] d = 9 -> "9"

LowerChar(c) ==
    CASE c = "M" -> "m" [] c = "I" -> "i" [] c = "L" -> "l"
      [] c = "N" -> "n" [] c = "A" -> "a" [] c = "R" -> "r"
      [] c = "K" -> "k" [] c = "T" -> "t" [] c = "O" -> "o"
      [] c = "X" -> "x"
      [] OTHER -> c

UpperChar(c) ==
    CASE c = "m" -> "M" [] c = "i" -> "I" [] c = "l" -> "L"
      [] c = "n" -> "N" [] c = "a" -> "A" [] c = "r" -> "R"
      [] c = "k" -> "K" [] c = "t" -> "T" [] c = "o" -> "O"
      [] c = "x" -> "X"
      [] OTHER -> c

Lower(s) == SubSeq([i \in 1..Len(s) |-> LowerChar(s[i])], 1, Len(s))

Upper(s) == SubSeq([i \in 1..Len(s) |-> UpperChar(s[i])], 1, Len(s))

IsSpace(c) == c = " "

RECURSIVE LStrip(_)
LStrip(s) ==
    IF s # <<>> /\ IsSpace(Head(s)) THEN LStrip(Tail(s)) ELSE s

RECURSIVE RStrip(_)
RStrip(s) ==
    IF s # <<>> /\ IsSpace(s[Len(s)]) THEN RStrip(SubSeq(s, 1, Len(s) - 1)) ELSE s

Strip(s) == RStrip(LStrip(s))

StartsWith(s, p) == Len(s) >= Len(p) /\ SubSeq(s, 1, Len(p)) = p

\* sub in s
Contains(s, sub) == \E i \in 1..(Len(s) - Len(sub) + 1) : SubSeq(s, i, i + Len(sub) - 1) = sub

\* s.replace(old, new): every non-overlapping occurrence, left to right (old non-empty)
RECURSIVE Replace(_, _, _)
Replace(s, old, new) ==
    IF s = <<>> THEN <<>>
    ELSE IF StartsWith(s, old) THEN new \o Replace(SubSeq(s, Len(old) + 1, Len(s)), old, new)
    ELSE <<Head(s)>> \o Replace(Tail(s), old, new)

AllDigits(s) == \A i \in 1..Len(s) : s[i] \in DigitChars

RECURSIVE DigitsValue(_)
DigitsValue(s) ==
    IF s = <<>> THEN 0 ELSE 10 * DigitsValue(SubSeq(s, 1, Len(s) - 1)) + DigitVal(s[Len(s)])

RECURSIVE Pow(_, _)
Pow(b, n) == IF n = 0 THEN 1 ELSE b * Pow(b, n - 1)

\* int(s) for a str: surrounding whitespace, one optional sign, decimal digits.
\* ok = FALSE is ValueError.
ParseInt(s) ==
    LET t == Strip(s)
        signed == t # <<>> /\ Head(t) \in {"+", "-"}
        body == IF signed THEN Tail(t) ELSE t
    IN  IF body # <<>> /\ AllDigits(body)
        THEN [ok |-> TRUE,
              v |-> IF signed /\ Head(t) = "-" THEN 0 - DigitsValue(body) ELSE DigitsValue(body)]
        ELSE [ok |-> FALSE, v |-> 0]

\* str(n) for an int
RECURSIVE NatToStr(_)
NatToStr(n) ==
    IF n < 10 THEN <<DigitChar(n)>> ELSE NatToStr(n \div 10) \o <<DigitChar(n % 10)>>

\* the digits of f"{num:,}": a "," before every group of three digits
RECURSIVE GroupThousands(_)
GroupThousands(d) ==
    IF Len(d) <= 3 THEN d
    ELSE GroupThousands(SubSeq(d, 1, Len(d) - 3)) \o <<",">> \o SubSeq(d, Len(d) - 2, Len(d))

FormatComma(num) ==
    IF num < 0 THEN <<"-">> \o GroupThousands(NatToStr(0 - num))
    ELSE GroupThousands(NatToStr(num))

(***************************************************************************)
(* Natural numbers wider than a machine word: little-endian limbs          *)
(***************************************************************************)
LimbBits == 15

LimbBase == 2 ^ LimbBits

RECURSIVE BNorm(_)
BNorm(b) ==
    IF b # <<>> /\ b[Len(b)] = 0 THEN BNorm(SubSeq(b, 1, Len(b) - 1)) ELSE b

RECURSIVE BFromNat(_)
BFromNat(n) ==
    IF n = 0 THEN <<>> ELSE <<n % LimbBase>> \o BFromNat(n \div LimbBase)

RECURSIVE BToNat(_)
BToNat(b) ==
    IF b = <<>> THEN 0 ELSE Head(b) + LimbBase * BToNat(Tail(b))

\* b * k + carry, for 0 <= k <= LimbBase
RECURSIVE BMulAdd(_, _, _)
BMulAdd(b, k, carry) ==
    IF b = <<>> THEN BFromNat(carry)
    ELSE LET p == Head(b) * k + carry
         IN  <<p % LimbBase>> \o BMulAdd(Tail(b), k, p \div LimbBase)

BMulSmall(b, k) == BNorm(BMulAdd(b, k, 0))

BAddSmall(b, k) == BNorm(BMulAdd(b, 1, k))

\* b * 2^n
RECURSIVE BShl(_, _)
BShl(b, n) ==
    IF n = 0 THEN b
    ELSE IF n >= LimbBits THEN BShl(<<0>> \o b, n - LimbBits)
    ELSE BMulSmall(b, 2 ^ n)

\* divmod(b, k) for 0 < k <= LimbBase, most significant limb first
RECURSIVE BDivModFrom(_, _, _)
BDivModFrom(b, k, rem) ==
    IF b = <<>> THEN [q |-> <<>>, r |-> rem]
    ELSE LET cur == rem * LimbBase + b[Len(b)]
             rest == BDivModFrom(SubSeq(b, 1, Len(b) - 1), k, cur % k)
         IN  [q |-> rest.q \o <<cur \div k>>, r |-> rest.r]

BDivMod(b, k) ==
    LET d == BDivModFrom(b, k, 0) IN [q |-> BNorm(d.q), r |-> d.r]

\* floor(b / 2^n)
RECURSIVE BShr(_, _)
BShr(b, n) ==
    IF n = 0 \/ b = <<>> THEN b
    ELSE IF n >= LimbBits THEN BShr(Tail(b), n - LimbBits)
    ELSE BDivMod(b, 2 ^ n).q

RECURSIVE NatBitLen(_)
NatBitLen(n) == IF n = 0 THEN 0 ELSE 1 + NatBitLen(n \div 2)

BBitLen(b) ==
    IF b = <<>> THEN 0 ELSE LimbBits * (Len(b) - 1) + NatBitLen(b[Len(b)])

BIsOdd(b) == b # <<>> /\ Head(b) % 2 = 1

\* round(b / k) to the nearest natural, ties to even, for 0 < k <= LimbBase
BDivRound(b, k) ==
    LET d == BDivMod(b, k)
    IN  IF 2 * d.r > k \/ (2 * d.r = k /\ BIsOdd(d.q)) THEN BAddSmall(d.q, 1) ELSE d.q

(***************************************************************************)
(* binary64: a positive finite double is [m, t], value m / 2^t,            *)
(* 2^52 <= m <= 2^53                                                       *)
(***************************************************************************)
MantBits == 53

\* the k with 2^k <= num/den < 2^(k+1), for num, den > 0
RECURSIVE Log2Floor(_, _)
Log2Floor(num, den) ==
    IF num < den THEN Log2Floor(2 * num, den) - 1
    ELSE IF num >= 2 * den THEN Log2Floor(num, 2 * den) + 1
    ELSE 0

\* the double nearest to the decimal num/den (den a power of ten, num > 0)
DoubleOfDecimal(num, den) ==
    LET t == (MantBits - 1) - Log2Floor(num, den)
    IN  [m |-> BDivRound(BShl(BFromNat(num), t), den), t |-> t]

\* d * k in binary64, k a small positive integer (exactly representable)
DoubleMulSmall(d, k) ==
    LET p == BMulSmall(d.m, k)
        s == BBitLen(p) - MantBits
    IN  IF s <= 0 THEN [m |-> p, t |-> d.t]
        ELSE [m |-> BDivRound(p, 2 ^ s), t |-> d.t - s]

\* int(d) for a positive double below 2^31
DoubleTrunc(d) == BToNat(BShr(d.m, d.t))

\* float(s): surrounding whitespace, one optional sign, then 'nan' or a decimal
\* literal with at least one digit.  kind = "error" is ValueError.  The alphabets
\* below hold neither 'e', 'f' nor '_', so no exponent, infinity or digit-group
\* form can occur.
ParseFloat(s) ==
    LET t == Strip(s)
        signed == t # <<>> /\ Head(t) \in {"+", "-"}
        neg == signed /\ Head(t) = "-"
        body == IF signed THEN Tail(t) ELSE t
        dots == {i \in 1..Len(body) : body[i] = "."}
        dot == IF dots = {} THEN Len(body) + 1 ELSE CHOOSE i \in dots : \A j \in dots : i <= j
        ip == SubSeq(body, 1, dot - 1)
        fp == SubSeq(body, dot + 1, Len(body))
    IN  IF Lower(body) = <<"n", "a", "n">> THEN [kind |-> "nan", neg |-> neg, num |-> 0, den |-> 1]
        ELSE IF AllDigits(ip) /\ AllDigits(fp) /\ Len(ip) + Len(fp) > 0
        THEN [kind |-> "num", neg |-> neg, num |-> DigitsValue(ip \o fp), den |-> Pow(10, Len(fp))]
        ELSE [kind |-> "error", neg |-> neg, num |-> 0, den |-> 1]

(***************************************************************************)
(* 1. clean_sold_data and format_sold_data_for_display                     *)
(***************************************************************************)
\* Python values handed to the two functions: None, float('nan'), an int, a str
PyNone == [t |-> "None", s |-> <<>>]
PyNaN == [t |-> "float_nan", s |-> <<>>]
PyInt == [t |-> "int", s |-> <<>>]
PyStr(s) == [t |-> "str", s |-> s]

\* pd.isna(texto)
IsNa(x) == x.t \in {"None", "float_nan"}

IsStr(x) == x.t = "str"

NA == <<"N", "/", "A">>
MIL == <<"m", "i", "l">>

\* int(base_value * 1000) for base_value = float(p): ValueError for a literal that
\* does not parse and for nan
MilValue(p) ==
    IF p.kind # "num" THEN [ok |-> FALSE, v |-> 0]
    ELSE IF p.num = 0 THEN [ok |-> TRUE, v |-> 0]
    ELSE LET mag == DoubleTrunc(DoubleMulSmall(DoubleOfDecimal(p.num, p.den), 1000))
         IN  [ok |-> TRUE, v |-> IF p.neg THEN 0 - mag ELSE mag]

clean_sold_data(x) ==
    IF IsNa(x) \/ ~IsStr(x) \/ Upper(x.s) = NA \/ Strip(x.s) = <<>> THEN 0
    ELSE LET t == Strip(Replace(Lower(x.s), <<"+">>, <<>>))
         IN  IF Contains(t, MIL)
             THEN LET r == MilValue(ParseFloat(Replace(Replace(t, MIL, <<>>), <<",">>, <<".">>)))
                  IN  IF r.ok THEN r.v ELSE 0
             ELSE LET r == ParseInt(t)
                  IN  IF r.ok THEN r.v ELSE 0

format_sold_data_for_display(x) ==
    IF IsNa(x) \/ ~IsStr(x) \/ Strip(x.s) = <<>> THEN NA
    ELSE LET t == Strip(x.s)
         IN  IF Upper(t) = NA \/ clean_sold_data(PyStr(t)) = 0 THEN NA
             ELSE LET u == Strip(Replace(Replace(t, <<"+">>, <<>>), MIL, <<"0", "0", "0">>))
                      r == ParseInt(u)
                  IN  IF r.ok THEN Replace(FormatComma(r.v), <<",">>, <<".">>) ELSE u

\* the element-wise parse of pd.to_numeric(..., errors='coerce') on a str: the
\* numeric literal or NaN.  A parsed price is the exact decimal num/den, num signed.
NaNPrice == [nan |-> TRUE, num |-> 0, den |-> 1]

to_numeric(s) ==
    LET p == ParseFloat(s)
    IN  IF p.kind = "num"
        THEN [nan |-> FALSE, num |-> IF p.neg THEN 0 - p.num ELSE p.num, den |-> p.den]
        ELSE NaNPrice

\* main, step 1: df['Preço'].astype(str).str.replace('.', '').str.replace(',', '.').str.strip(),
\* then pd.to_numeric
clean_price(s) ==
    to_numeric(Strip(Replace(Replace(s, <<".">>, <<>>), <<",">>, <<".">>)))

(***************************************************************************)
(* 4. analyze_keywords_8020 and analyze_cost_price; pandas ordering        *)
(***************************************************************************)
SeqMin(a, b) == IF a < b THEN a ELSE b

SeqMax(a, b) == IF a > b THEN a ELSE b

Reverse(q) == SubSeq([i \in 1..Len(q) |-> q[Len(q) + 1 - i]], 1, Len(q))

\* every listing of the finite set S
Listings(S) ==
    {q \in [1..Cardinality(S) -> S] : \A i, j \in 1..Cardinality(S) : i # j => q[i] # q[j]}

\* the labels S in runs of equal key, smallest key first
KeyRuns(S, key) ==
    LET K == {key[i] : i \in S}
        at == {<<Cardinality({j \in K : j < k}) + 1, k>> : k \in K}
    IN  [p \in 1..Cardinality(K) |-> {i \in S : <<p, key[i]>> \in at}]

RECURSIVE RunOrders(_)
RunOrders(runs) ==
    IF runs = <<>> THEN {<<>>}
    ELSE {g \o rest : g \in Listings(Head(runs)), rest \in RunOrders(Tail(runs))}

\* ndarray.argsort(kind='quicksort') over the labels S with integer keys:
\* the sort is not stable, so equal keys may come out in any order
argsort(S, key) == RunOrders(KeyRuns(S, key))

\* the rows without a key are put first
nargsort_na_first(n, key, isnull, ascending) ==
    LET non_nan == {i \in 1..n : ~isnull[i]}
        nan_idx == SelectSeq([i \in 1..n |-> i], LAMBDA i : isnull[i])
    IN  {nan_idx \o (IF ascending THEN o ELSE Reverse(o)) : o \in argsort(non_nan, key)}

\* pandas.core.sorting.nargsort with na_position='last': the rows with a key, sorted
\* (a descending sort is the ascending argsort of the reversed rows, reversed), then
\* the rows without
nargsort(n, key, isnull, ascending) ==
    LET non_nan == {i \in 1..n : ~isnull[i]}
        nan_idx == SelectSeq([i \in 1..n |-> i], LAMBDA i : isnull[i])
    IN  {(IF ascending THEN o ELSE Reverse(o)) \o nan_idx : o \in argsort(non_nan, key)}

\* the price keys of a table as integers over the rows' common denominator
MaxDen(df) ==
    LET D == {df[i].PrecoLimpo.den : i \in 1..Len(df)}
    IN  IF D = {} THEN 1 ELSE CHOOSE d \in D : \A e \in D : e <= d

PriceKey(df) ==
    LET d == MaxDen(df)
    IN  [i \in 1..Len(df) |-> df[i].PrecoLimpo.num * (d \div df[i].PrecoLimpo.den)]

PriceNull(df) == [i \in 1..Len(df) |-> df[i].PrecoLimpo.nan]

SoldKey(df) == [i \in 1..Len(df) |-> df[i].VendidosNumerico]

\* the order of sort_values(by=[sold, price], ascending=[False, True]): pandas
\* lexsort_indexer, every key's missing values last
LexBefore(df, i, j) ==
    LET a == df[i].PrecoLimpo
        b == df[j].PrecoLimpo
    IN  \/ df[i].VendidosNumerico > df[j].VendidosNumerico
        \/ /\ df[i].VendidosNumerico = df[j].VendidosNumerico
           /\ \/ ~a.nan /\ b.nan
              \/ ~a.nan /\ ~b.nan /\ a.num * b.den < b.num * a.den

\* the second key is dropped: rows of equal sold count keep their scraped order
lexsort_indexer_first_key(df, n) ==
    LET ahead(i) == {j \in 1..n : df[j].VendidosNumerico > df[i].VendidosNumerico
                                    \/ (df[j].VendidosNumerico = df[i].VendidosNumerico /\ j < i)}
        at == {<<Cardinality(ahead(i)) + 1, i>> : i \in 1..n}
    IN  SubSeq([p \in 1..n |-> CHOOSE i \in 1..n : <<p, i>> \in at], 1, n)

\* lexsort_indexer is a stable sort: a row comes after the rows that are before
\* it in the order and after the earlier rows that are level with it
lexsort_indexer(df, n) ==
    LET ahead(i) == {j \in 1..n : LexBefore(df, j, i) \/ (~LexBefore(df, i, j) /\ j < i)}
        at == {<<Cardinality(ahead(i)) + 1, i>> : i \in 1..n}
    IN  SubSeq([p \in 1..n |-> CHOOSE i \in 1..n : <<p, i>> \in at], 1, n)

\* int(n * 0.20) in binary64
TopFractionNum == 20
TopFractionDen == 100
TopFloor == 10
MostCommon == 10

\* the floor of 10 rows is left out
top_20_count_no_floor(n) ==
    IF n = 0 THEN 0
    ELSE DoubleTrunc(DoubleMulSmall(DoubleOfDecimal(TopFractionNum, TopFractionDen), n))

top_20_count(n) ==
    SeqMax(TopFloor,
           IF n = 0 THEN 0
           ELSE DoubleTrunc(DoubleMulSmall(DoubleOfDecimal(TopFractionNum, TopFractionDen), n)))

\* DataFrame.head(k)
head(q, k) == SubSeq(q, 1, SeqMin(k, Len(q)))

LowerAZ == {"a", "b", "c", "d", "e", "f", "g", "h", "i", "j", "k", "l", "m", "n", "o", "p", "q", "r", "s", "t", "u", "v", "w", "x", "y", "z"}

\* \w of a str pattern: letters (accented ones too), digits, underscore
WordChars ==
    LowerAZ \cup DigitChars
            \cup {"A", "I", "K", "L", "M", "N", "O", "R", "T", "X", "_", "ç", "é", "ã", "à"}

stopwords ==
    {<<"d", "e">>, <<"a">>, <<"o">>,
     <<"q", "u", "e">>, <<"e">>, <<"é">>,
     <<"d", "o">>, <<"d", "a">>, <<"e", "m">>,
     <<"u", "m">>, <<"u", "m", "a">>, <<"p", "a", "r", "a">>,
     <<"c", "o", "m">>, <<"n", "o">>, <<"n", "a">>,
     <<"p", "o", "r">>, <<"m", "a", "i", "s">>, <<"o", "s">>,
     <<"a", "s">>, <<"d", "o", "s">>, <<"d", "a", "s">>,
     <<"t", "e", "m">>, <<"s", "ã", "o">>, <<"a", "o">>,
     <<"à">>, <<"s", "e">>, <<"s", "e", "r">>,
     <<"o", "u">>, <<"q", "u", "a", "n", "d", "o">>, <<"m", "u", "i", "t", "o">>,
     <<"m", "e", "u">>, <<"m", "i", "n", "h", "a">>, <<"s", "e", "u">>,
     <<"s", "u", "a">>, <<"e", "s", "s", "e">>, <<"e", "s", "s", "a">>,
     <<"e", "s", "t", "e">>, <<"e", "s", "t", "a">>, <<"p", "a", "r", "a">>,
     <<"m", "a", "s">>, <<"c", "o", "m", "o">>, <<"m", "o", "d", "e", "l", "o">>,
     <<"s", "l", "i", "m">>, <<"k", "i", "t">>, <<"c", "a", "l", "ç", "a", "s">>,
     <<"e", "n", "v", "i", "o">>, <<"i", "m", "e", "d", "i", "a", "t", "o">>, <<"p", "a", "r">>}

\* the maximal runs of word characters of s, left to right
RECURSIVE WordRuns(_, _)
WordRuns(s, cur) ==
    IF s = <<>> THEN (IF cur = <<>> THEN <<>> ELSE <<cur>>)
    ELSE IF Head(s) \in WordChars THEN WordRuns(Tail(s), Append(cur, Head(s)))
    ELSE (IF cur = <<>> THEN <<>> ELSE <<cur>>) \o WordRuns(Tail(s), <<>>)

\* re.findall(r'\b[a-z]{3,}\b', s): a match starts and ends at a word boundary, so
\* it is a whole run of word characters, all of them a-z, at least three
MinWordLen == 3

findall_words(s) ==
    SelectSeq(WordRuns(s, <<>>),
              LAMBDA r : Len(r) >= MinWordLen /\ \A i \in 1..Len(r) : r[i] \in LowerAZ)

\* Counter(all_words): every word with its count and the place of its first
\* occurrence, which is its place in the Counter
Counter(ws) ==
    {[word |-> w,
      count |-> Cardinality({i \in 1..Len(ws) : ws[i] = w}),
      first |-> CHOOSE i \in 1..Len(ws) : ws[i] = w /\ \A j \in 1..(i - 1) : ws[j] # w] :
        w \in {ws[i] : i \in 1..Len(ws)}}

\* Counter.most_common(k): sorted by count, largest first, equal counts in order of
\* first occurrence; the first k
most_common(c, k) ==
    LET ahead(e) == {d \in c : d.count > e.count \/ (d.count = e.count /\ d.first < e.first)}
        at == {<<Cardinality(ahead(e)) + 1, e>> : e \in c}
        m == SeqMin(k, Cardinality(c))
    IN  SubSeq([p \in 1..m |->
                   LET e == CHOOSE d \in c : <<p, d>> \in at
                   IN  [word |-> e.word, count |-> e.count]], 1, m)

\* the words of the titles of the rows top, in row order
RECURSIVE all_words(_, _)
all_words(df, top) ==
    IF top = <<>> THEN <<>>
    ELSE SelectSeq(findall_words(Lower(df[Head(top)].Nome)), LAMBDA w : w \notin stopwords)
            \o all_words(df, Tail(top))

\* analyze_keywords_8020(df): the possible (word_counts, df_top_vendas)
analyze_keywords_8020(df) ==
    {[word_counts |-> most_common(Counter(all_words(df, top)), MostCommon), top |-> top] :
        top \in {head(o, top_20_count(Len(df))) :
                    o \in nargsort(Len(df), SoldKey(df), [i \in 1..Len(df) |-> FALSE], FALSE)}}

\* analyze_cost_price(df_top_vendas, markup_min=0.80, markup_exc=1.00); a value is
\* the exact fraction num/den, the markups are hundredths
MarkupMin == 80
MarkupExc == 100

NoCost == [none |-> TRUE, avg |-> <<0, 1>>, cost_80 |-> <<0, 1>>, cost_100 |-> <<0, 1>>]

RECURSIVE SumKeys(_, _)
SumKeys(key, q) == IF q = <<>> THEN 0 ELSE key[Head(q)] + SumKeys(key, Tail(q))

\* the mean is taken over every row of the subset, a row without a price counting 0
analyze_cost_price_all_rows(df, top) ==
    LET df_valid == SelectSeq(top, LAMBDA i : ~df[i].PrecoLimpo.nan)
        key == PriceKey(df)
        avg == <<SumKeys(key, df_valid), MaxDen(df) * Len(top)>>
    IN  IF df_valid = <<>> THEN NoCost
        ELSE [none |-> FALSE,
              avg |-> avg,
              cost_80 |-> <<avg[1] * 100, avg[2] * (100 + MarkupMin)>>,
              cost_100 |-> <<avg[1] * 100, avg[2] * (100 + MarkupExc)>>]

analyze_cost_price(df, top) ==
    LET df_valid == SelectSeq(top, LAMBDA i : ~df[i].PrecoLimpo.nan)
        key == PriceKey(df)
        avg == <<SumKeys(key, df_valid), MaxDen(df) * Len(df_valid)>>
    IN  IF df_valid = <<>> THEN NoCost
        ELSE [none |-> FALSE,
              avg |-> avg,
              cost_80 |-> <<avg[1] * 100, avg[2] * (100 + MarkupMin)>>,
              cost_100 |-> <<avg[1] * 100, avg[2] * (100 + MarkupExc)>>]

(***************************************************************************)
(* 5. calculate_profit.  PV and CP are whole cents; every amount returned  *)
(* is in hundredths of a cent, a rate is in percent, a fixed cost in cents *)
(* and 'Margem %' is the exact fraction num/den.                           *)
(***************************************************************************)
TAX_IMPOSTO == 4
TAX_MARKETING == 3
COST_EMBALAGEM == 35
COST_OPERACAO == 150
ML_COMMISSION_RATE == 25
ML_FIXED_COST == 0
SHOPEE_COMMISSION_RATE == 18

COST_FIXO_VENDA == COST_EMBALAGEM + COST_OPERACAO

COST_PERCENTUAL_BASE == TAX_IMPOSTO + TAX_MARKETING

ZeroProfit == [CustoTotal |-> 0, Comissao |-> 0, LucroBruto |-> 0, Margem |-> <<0, 1>>]

\* lines 104-119 and 122-136: one marketplace's entry of results
marketplace(pv, cp, rate, fixed) ==
    LET COMISSAO == pv * rate + fixed * 100
        CUSTO_TOTAL == cp * 100 + pv * COST_PERCENTUAL_BASE + COMISSAO + COST_FIXO_VENDA * 100
        LUCRO_BRUTO == pv * 100 - CUSTO_TOTAL
    IN  [CustoTotal |-> CUSTO_TOTAL,
         Comissao |-> COMISSAO,
         LucroBruto |-> LUCRO_BRUTO,
         Margem |-> <<LUCRO_BRUTO, pv>>]

\* the guard compares with < instead of <=
calculate_profit_strict(pv, cp) ==
    IF pv < cp THEN [MercadoLivre |-> ZeroProfit, Shopee |-> ZeroProfit]
    ELSE [MercadoLivre |-> marketplace(pv, cp, ML_COMMISSION_RATE, ML_FIXED_COST),
          Shopee |-> marketplace(pv, cp, SHOPEE_COMMISSION_RATE, 0)]

calculate_profit(pv, cp) ==
    IF pv <= cp THEN [MercadoLivre |-> ZeroProfit, Shopee |-> ZeroProfit]
    ELSE [MercadoLivre |-> marketplace(pv, cp, ML_COMMISSION_RATE, ML_FIXED_COST),
          Shopee |-> marketplace(pv, cp, SHOPEE_COMMISSION_RATE, 0)]

(***************************************************************************)
(* Inputs of the normalizers                                               *)
(***************************************************************************)
MaxFreeLen == 3
MaxIntDigits == 2
MaxFracDigits == 2

SeqsUpTo(S, n) == UNION {[1..k -> S] : k \in 0..n}

SoldDigits == {"0", "1", "2"}

FreeChars == {"1", "-", "+", " ", ",", "m", "i", "l", "N", "/", "A", "a", "n"}

\* [sign] digits [sep digits] [space] [suffix] [+]
StructuredSold ==
    {sign \o ip \o fr \o gap \o suf \o tl :
        sign \in {<<>>, <<"+">>, <<"-">>},
        ip \in SeqsUpTo(SoldDigits, MaxIntDigits),
        fr \in {<<>>} \cup {<<sep>> \o fd : sep \in {",", "."},
                                           fd \in SeqsUpTo(SoldDigits, MaxFracDigits) \ {<<>>}},
        gap \in {<<>>, <<" ">>},
        suf \in {<<>>, <<"m", "i", "l">>, <<"M", "I", "L">>, <<"x">>},
        tl \in {<<>>, <<"+">>}}

SoldInputs ==
    {PyNone, PyNaN, PyInt} \cup {PyStr(s) : s \in SeqsUpTo(FreeChars, MaxFreeLen) \cup StructuredSold}

PriceChars == {"0", "1", "5", ".", ",", "-", " "}

\* what lines 181-188 can leave in price_str: the 'N/A' default, or the fraction
\* text, optionally followed by "," and the cents text
PriceInputs ==
    {NA} \cup SeqsUpTo(PriceChars, MaxFreeLen)
         \cup {a \o <<",">> \o b : a \in SeqsUpTo(PriceChars, MaxIntDigits),
                                    b \in SeqsUpTo(PriceChars, MaxFracDigits)}

\* scraped titles
TitlePool ==
    <<<<"R", "a", "l", "o", " ", "L", "i", "n", "e", "a", "r", " ", "I", "n", "o", "x", " ", "1", "0", "c", "m">>,
      <<"k", "i", "t", " ", "r", "a", "l", "o", " ", "c", "l", "i", "c", "k", " ", "i", "n", "o", "x", " ", "p", "a", "r", "a", " ", "b", "a", "n", "h", "e", "i", "r", "o">>,
      <<"r", "a", "l", "o", " ", "o", "c", "u", "l", "t", "o", " ", "q", "u", "a", "d", "r", "a", "d", "o", " ", "c", "o", "m", " ", "t", "a", "m", "p", "a">>,
      <<"g", "r", "e", "l", "h", "a", " ", "s", "i", "f", "o", "n", "a", "d", "a", " ", "c", "o", "z", "i", "n", "h", "a", " ", "b", "o", "x">>,
      <<"c", "a", "l", "ç", "a", "s", " ", "s", "l", "i", "m", " ", "m", "o", "d", "e", "l", "o", " ", "p", "a", "r">>,
      <<"N", "/", "A">>,
      <<"r", "a", "l", "o", "-", "i", "n", "o", "x", " ", "a", "n", "t", "i", "_", "o", "d", "o", "r", " ", "é", " ", "t", "o", "p">>>>

TitleAt(i) == TitlePool[(i % Len(TitlePool)) + 1]

MaxRows == 3
MaxRecords == 56

\* scraped ('Preço', 'Vendidos') pairs: nothing found, a price only, a price and a
\* sold count, a dearer price and the same sold count
SmallRows ==
    {<<NA, NA>>,
     <<<<"1", "0", "0">>, NA>>,
     <<<<"9", "9", ",", "5", "0">>, <<"+", "1", "m", "i", "l">>>>,
     <<<<"1", "0", "0">>, <<"+", "1", "m", "i", "l">>>>}

\* every table of at most MaxRows rows over SmallRows
SmallFrames ==
    UNION {{[i \in 1..n |-> [Nome |-> TitleAt(i), Preco |-> f[i][1], Vendidos |-> f[i][2]]] :
                f \in [1..n -> SmallRows]} : n \in 0..MaxRows}

BigPrecos ==
    <<NA, <<"1", "0", "0">>, <<"9", "9", ",", "9", "0">>,
      <<"1", ".", "0", "0", "0", ",", "1", "0">>, <<"1", "0", "0", ",", "1", "0">>>>

\* larger tables: the sold counts are 1..n in row order ("up") or rotated ("rot"),
\* the rows ranked tie and tie + 1 from the top share a count (tie = 0: none), the
\* prices walk BigPrecos in steps of p (p = 0: no row has a price)
BigSeeds == [order : {"up", "rot"}, tie : {0, 10, 11}, p : {0, 1}]

GenSold(n, i, sd) ==
    LET v0 == IF sd.order = "up" THEN i ELSE ((i + n \div 2) % n) + 1
        v == IF sd.tie > 0 /\ sd.tie < n /\ v0 = n - sd.tie THEN v0 + 1 ELSE v0
    IN  <<"+">> \o NatToStr(v)

BigFrames ==
    {[i \in 1..n |-> [Nome |-> TitleAt(i + sd.p),
                      Preco |-> BigPrecos[((i * sd.p) % Len(BigPrecos)) + 1],
                      Vendidos |-> GenSold(n, i, sd)]] :
        n \in (MaxRows + 1)..MaxRecords, sd \in BigSeeds}

SortOptions == {"Mais Vendido", "Mais Relevante", "Menor Preço"}

(***************************************************************************)
(* The normalizer runs: main applies steps 1-3 to every record             *)
(***************************************************************************)
IdleSold ==
    /\ texto = PyNone
    /\ sold_pc = "idle"
    /\ sold_num = 0
    /\ sold_disp = <<>>

IdlePreco ==
    /\ preco = <<>>
    /\ preco_pc = "idle"
    /\ preco_limpo = NaNPrice

IdleMain ==
    /\ df_results = <<>>
    /\ sort_option = "Mais Vendido"
    /\ main_pc = "idle"
    /\ df_sorted = <<>>
    /\ keywords_8020 = <<>>
    /\ df_top_vendas = <<>>
    /\ cost_report = NoCost

IdleProfit ==
    /\ selling_price = 1
    /\ cost_price = 1
    /\ profit_pc = "idle"
    /\ profit_results = [MercadoLivre |-> ZeroProfit, Shopee |-> ZeroProfit]

NoResponse == [kind |-> "none", exc |-> "", status |-> 0, items |-> <<>>]

IdleScrape ==
    /\ pages = 1
    /\ page_num = 0
    /\ scrape_pc = "idle"
    /\ response = NoResponse
    /\ all_results = <<>>
    /\ messages = <<>>
    /\ sleeps = 0
    /\ requested = <<>>
    /\ served = <<>>
    /\ returned = <<>>

\* @st.cache_data(ttl=600): the lifetime of an entry, in seconds
TTL == 600

\* the arguments (search_term, pages, sort_order) of the calls main makes
CacheKeys ==
    {[search_term |-> "ralo", pages |-> 1, sort_order |-> "relevance"],
     [search_term |-> "ralo", pages |-> 2, sort_order |-> "relevance"],
     [search_term |-> "ralo", pages |-> 1, sort_order |-> "lowest_price"]}

NoEntry == [present |-> FALSE, stored |-> 0, obj |-> 0, pickled |-> <<>>]

IdleCache ==
    /\ now = 0
    /\ cache = [key \in CacheKeys |-> NoEntry]
    /\ heap = <<>>
    /\ calls = <<>>
    /\ cache_pc = "idle"

InitSold ==
    /\ texto \in SoldInputs
    /\ sold_pc = "start"
    /\ sold_num = 0
    /\ sold_disp = <<>>
    /\ IdlePreco
    /\ IdleMain
    /\ IdleProfit
    /\ IdleScrape
    /\ IdleCache

\* main, step 2: df['Vendidos_Numérico'] = df['Vendidos'].apply(clean_sold_data)
CleanSold ==
    /\ sold_pc = "start"
    /\ sold_num' = clean_sold_data(texto)
    /\ sold_pc' = "cleaned"
    /\ UNCHANGED <<texto, sold_disp, precoVars, mainVars, profitVars, scrapeVars, cacheVars>>

\* main, step 3: df['Vendidos'] = df['Vendidos'].apply(format_sold_data_for_display)
FormatSold ==
    /\ sold_pc = "cleaned"
    /\ sold_disp' = format_sold_data_for_display(texto)
    /\ sold_pc' = "done"
    /\ UNCHANGED <<texto, sold_num, precoVars, mainVars, profitVars, scrapeVars, cacheVars>>

NextSold == CleanSold \/ FormatSold

SpecSold == InitSold /\ [][NextSold]_vars

InitPreco ==
    /\ preco \in PriceInputs
    /\ preco_pc = "start"
    /\ preco_limpo = NaNPrice
    /\ IdleSold
    /\ IdleMain
    /\ IdleProfit
    /\ IdleScrape
    /\ IdleCache

\* main, step 1
CleanPrice ==
    /\ preco_pc = "start"
    /\ preco_limpo' = clean_price(preco)
    /\ preco_pc' = "done"
    /\ UNCHANGED <<preco, soldVars, mainVars, profitVars, scrapeVars, cacheVars>>

NextPreco == CleanPrice

SpecPreco == InitPreco /\ [][NextPreco]_vars

(***************************************************************************)
(* main: the button handler after scrape_mercado_livre has returned        *)
(***************************************************************************)
\* the sets of equal prices of a large table are too big to list every outcome of
\* the unstable single-key sort, so 'Menor Preço' is drawn for the small tables
InitMain ==
    /\ df_results \in SmallFrames \cup BigFrames
    /\ sort_option \in SortOptions
    /\ Len(df_results) > MaxRows => sort_option # "Menor Preço"
    /\ Len(df_results) <= MaxRows => sort_option # "Mais Relevante"
    /\ main_pc = "scraped"
    /\ df_sorted = <<>>
    /\ keywords_8020 = <<>>
    /\ df_top_vendas = <<>>
    /\ cost_report = NoCost
    /\ IdleSold
    /\ IdlePreco
    /\ IdleProfit
    /\ IdleScrape
    /\ IdleCache

\* lines 367, 484-485: an empty table ends the handler with a warning
NoResults ==
    /\ main_pc = "scraped"
    /\ df_results = <<>>
    /\ main_pc' = "empty"
    /\ UNCHANGED <<df_results, sort_option, df_sorted, keywords_8020, df_top_vendas, cost_report>>
    /\ UNCHANGED <<soldVars, precoVars, profitVars, scrapeVars, cacheVars>>

\* steps 1-3: the columns 'Preço Limpo' and 'Vendidos_Numérico' are added and
\* 'Vendidos' is rewritten for display
preprocess(df) ==
    [i \in 1..Len(df) |->
        [Nome |-> df[i].Nome,
         Preco |-> df[i].Preco,
         PrecoLimpo |-> clean_price(df[i].Preco),
         VendidosNumerico |-> clean_sold_data(PyStr(df[i].Vendidos)),
         Vendidos |-> format_sold_data_for_display(PyStr(df[i].Vendidos))]]

Preprocess ==
    /\ main_pc = "scraped"
    /\ df_results # <<>>
    /\ df_results' = preprocess(df_results)
    /\ main_pc' = "preprocessed"
    /\ UNCHANGED <<sort_option, df_sorted, keywords_8020, df_top_vendas, cost_report>>
    /\ UNCHANGED <<soldVars, precoVars, profitVars, scrapeVars, cacheVars>>

\* step 4: the possible row orders of df_sorted
sort_final(df, option) ==
    IF option = "Menor Preço" THEN nargsort(Len(df), PriceKey(df), PriceNull(df), TRUE)
    ELSE IF option = "Mais Vendido" THEN {lexsort_indexer(df, Len(df))}
    ELSE {[i \in 1..Len(df) |-> i]}

SortFinal ==
    /\ main_pc = "preprocessed"
    /\ df_sorted' \in sort_final(df_results, sort_option)
    /\ main_pc' = "sorted"
    /\ UNCHANGED <<df_results, sort_option, keywords_8020, df_top_vendas, cost_report>>
    /\ UNCHANGED <<soldVars, precoVars, profitVars, scrapeVars, cacheVars>>

AnalyzeKeywords ==
    /\ main_pc = "sorted"
    /\ \E r \in analyze_keywords_8020(df_results) :
            /\ keywords_8020' = r.word_counts
            /\ df_top_vendas' = r.top
    /\ main_pc' = "keywords"
    /\ UNCHANGED <<df_results, sort_option, df_sorted, cost_report>>
    /\ UNCHANGED <<soldVars, precoVars, profitVars, scrapeVars, cacheVars>>

AnalyzeCost ==
    /\ main_pc = "keywords"
    /\ cost_report' = analyze_cost_price(df_results, df_top_vendas)
    /\ main_pc' = "done"
    /\ UNCHANGED <<df_results, sort_option, df_sorted, keywords_8020, df_top_vendas>>
    /\ UNCHANGED <<soldVars, precoVars, profitVars, scrapeVars, cacheVars>>

NextMain == NoResults \/ Preprocess \/ SortFinal \/ AnalyzeKeywords \/ AnalyzeCost

SpecMain == InitMain /\ [][NextMain]_vars

(***************************************************************************)
(* main: the sidebar's profit simulation                                   *)
(***************************************************************************)
MaxCents == 4
MaxSteps == 6

\* both number inputs have min_value=0.01: a few cents, or a multiple of R$ 25,00
ProfitInputs == (1..MaxCents) \cup {2500 * k : k \in 1..MaxSteps}

InitProfit ==
    /\ selling_price \in ProfitInputs
    /\ cost_price \in ProfitInputs
    /\ profit_pc = "start"
    /\ profit_results = [MercadoLivre |-> ZeroProfit, Shopee |-> ZeroProfit]
    /\ IdleSold
    /\ IdlePreco
    /\ IdleMain
    /\ IdleScrape
    /\ IdleCache

\* line 319
CalculateProfit ==
    /\ profit_pc = "start"
    /\ profit_results' = calculate_profit(selling_price, cost_price)
    /\ profit_pc' = "done"
    /\ UNCHANGED <<selling_price, cost_price, soldVars, precoVars, mainVars, scrapeVars, cacheVars>>

NextProfit == CalculateProfit

SpecProfit == InitProfit /\ [][NextProfit]_vars

(***************************************************************************)
(* scrape_mercado_livre: the page loop                                     *)
(***************************************************************************)
MaxPages == 3
MaxItems == 2

\* what one li.ui-search-layout__item yields: title, price_str, sold
ItemPool ==
    {[Nome |-> TitleAt(0), Preco |-> <<"1", "0", "0">>, Vendidos |-> NA],
     [Nome |-> TitleAt(5), Preco |-> NA, Vendidos |-> <<"+", "1", "m", "i", "l">>]}

Transport == {"Timeout", "ConnectionError"}

Statuses == {200, 304, 403, 404, 500}

\* what requests.get can come back with: an exception of the transport, or the
\* final response, whose page holds items only when it is the listing
Responses ==
    {[kind |-> "transport", exc |-> x, status |-> 0, items |-> <<>>] : x \in Transport}
        \cup {[kind |-> "http", exc |-> "", status |-> 200, items |-> it] :
                  it \in SeqsUpTo(ItemPool, MaxItems)}
        \cup {[kind |-> "http", exc |-> "", status |-> s, items |-> <<>>] :
                  s \in Statuses \ {200}}

\* Response.raise_for_status raises HTTPError for a 4xx or 5xx status only
raise_for_status(r) == r.status >= 400 /\ r.status < 600

\* the exception the try block ends with, if any
Raised(r) ==
    IF r.kind = "transport" THEN [exc |-> r.exc, status |-> 0]
    ELSE IF raise_for_status(r) THEN [exc |-> "HTTPError", status |-> r.status]
    ELSE [exc |-> "", status |-> 0]

\* lines 224-234: the records of a page's items
page_records(items, page) ==
    [i \in 1..Len(items) |->
        [Nome |-> items[i].Nome, Preco |-> items[i].Preco,
         Vendidos |-> items[i].Vendidos, Pagina |-> page]]

Init ==
    /\ pages \in 1..MaxPages
    /\ page_num = 0
    /\ scrape_pc = "loop"
    /\ response = NoResponse
    /\ all_results = <<>>
    /\ messages = <<>>
    /\ sleeps = 0
    /\ requested = <<>>
    /\ served = <<>>
    /\ returned = <<>>
    /\ IdleSold
    /\ IdlePreco
    /\ IdleMain
    /\ IdleProfit
    /\ IdleCache

\* lines 151-157: the next page is requested
Get ==
    /\ scrape_pc = "loop"
    /\ page_num < pages
    /\ \E r \in Responses :
          /\ response' = r
          /\ served' = Append(served, r)
          /\ scrape_pc' = IF Raised(r).exc # "" THEN "except" ELSE "parsed"
    /\ requested' = Append(requested, [page |-> page_num + 1, offset |-> page_num * 48 + 1])
    /\ UNCHANGED <<pages, page_num, all_results, messages, sleeps, returned>>
    /\ UNCHANGED <<soldVars, precoVars, mainVars, profitVars, cacheVars>>

\* lines 162-164
EmptyFirstPage ==
    /\ scrape_pc = "parsed"
    /\ response.items = <<>>
    /\ page_num = 0
    /\ messages' = Append(messages, [kind |-> "warning", page |-> 1, exc |-> "", status |-> 0,
                                     text |-> "Nenhum item encontrado na primeira página."])
    /\ scrape_pc' = "return"
    /\ UNCHANGED <<pages, page_num, response, all_results, sleeps, requested, served, returned>>
    /\ UNCHANGED <<soldVars, precoVars, mainVars, profitVars, cacheVars>>

\* lines 166-237
ProcessPage ==
    /\ scrape_pc = "parsed"
    /\ ~(response.items = <<>> /\ page_num = 0)
    /\ all_results' = all_results \o page_records(response.items, page_num + 1)
    /\ messages' = Append(messages, [kind |-> "info", page |-> page_num + 1, exc |-> "", status |-> 0,
                                     text |-> "Página processada. Aguardando"])
    /\ sleeps' = sleeps + 1
    /\ page_num' = page_num + 1
    /\ scrape_pc' = "loop"
    /\ UNCHANGED <<pages, response, requested, served, returned>>
    /\ UNCHANGED <<soldVars, precoVars, mainVars, profitVars, cacheVars>>

\* line 240: f"Erro de conexão na página {page_num + 1}: {e}", the wording, the page
\* and the exception e that str(e) renders
error_message(page, e) ==
    [kind |-> "error", page |-> page, exc |-> e.exc, status |-> e.status,
     text |-> "Erro de conexão na página"]

\* lines 239-241
RequestFailed ==
    /\ scrape_pc = "except"
    /\ messages' = Append(messages, error_message(page_num + 1, Raised(response)))
    /\ scrape_pc' = "return"
    /\ UNCHANGED <<pages, page_num, response, all_results, sleeps, requested, served, returned>>
    /\ UNCHANGED <<soldVars, precoVars, mainVars, profitVars, cacheVars>>

\* line 243, after a break or after the last page
Return ==
    /\ scrape_pc = "return" \/ (scrape_pc = "loop" /\ page_num >= pages)
    /\ returned' = all_results
    /\ scrape_pc' = "returned"
    /\ UNCHANGED <<pages, page_num, response, all_results, messages, sleeps, requested, served>>
    /\ UNCHANGED <<soldVars, precoVars, mainVars, profitVars, cacheVars>>

Next == Get \/ EmptyFirstPage \/ ProcessPage \/ RequestFailed \/ Return

Spec == Init /\ [][Next]_vars

(***************************************************************************)
(* st.cache_data around scrape_mercado_livre, and main's use of the table  *)
(***************************************************************************)
MaxCalls == 3

\* seconds between one press of the button and the next
Delays == {200, 400}

\* the entry holds the DataFrame object itself instead of its pickled bytes
write_result_by_reference(h, id, t) ==
    [present |-> TRUE, stored |-> t, obj |-> id, pickled |-> <<>>]

\* cache_data keeps the value object id of the heap h as pickled bytes, taken at
\* time t when the function returns (obj = 0: no object is kept)
write_result(h, id, t) ==
    [present |-> TRUE, stored |-> t, obj |-> 0, pickled |-> h[id]]

\* what a hit hands out: the bytes unpickled into a new object
read_result(h, e) == IF e.obj = 0 THEN e.pickled ELSE h[e.obj]

\* an entry is served while its lifetime has not run out
fresh(e, t) == e.present /\ t < e.stored + TTL

\* what the page loop can come back with for pages = p: a table, after n requests
BodyOutcomes(p) ==
    {[table |-> page_records(it, 1), n |-> k] :
        it \in SeqsUpTo(ItemPool, 1), k \in 1..p}

InitCache ==
    /\ now = 0
    /\ cache = [key \in CacheKeys |-> NoEntry]
    /\ heap = <<>>
    /\ calls = <<>>
    /\ cache_pc = "ready"
    /\ IdleSold
    /\ IdlePreco
    /\ IdleMain
    /\ IdleProfit
    /\ IdleScrape

\* lines 141, 365: no live entry for the key; the function body runs, its value is
\* stored and handed to main.  The entry's lifetime starts at the time of the call,
\* the earliest it can start.
CacheMiss ==
    /\ cache_pc = "ready"
    /\ Len(calls) < MaxCalls
    /\ \E key \in CacheKeys, d \in Delays :
          /\ ~fresh(cache[key], now + d)
          /\ \E out \in BodyOutcomes(key.pages) :
                /\ now' = now + d
                /\ heap' = Append(heap, out.table)
                /\ cache' = [cache EXCEPT ![key] =
                                write_result(Append(heap, out.table), Len(heap) + 1, now + d)]
                /\ requested' = requested \o [i \in 1..out.n |->
                                                  [page |-> i, offset |-> (i - 1) * 48 + 1]]
                /\ calls' = Append(calls, [key |-> key, at |-> now + d, computed |-> TRUE,
                                           requests |-> out.n, table |-> out.table])
    /\ cache_pc' = "fetched"
    /\ UNCHANGED <<pages, page_num, scrape_pc, response, all_results, messages, sleeps, served, returned>>
    /\ UNCHANGED <<soldVars, precoVars, mainVars, profitVars>>

\* lines 141, 365: a live entry for the key; the body does not run
CacheHit ==
    /\ cache_pc = "ready"
    /\ Len(calls) < MaxCalls
    /\ \E key \in CacheKeys, d \in Delays :
          /\ fresh(cache[key], now + d)
          /\ now' = now + d
          /\ heap' = Append(heap, read_result(heap, cache[key]))
          /\ calls' = Append(calls, [key |-> key, at |-> now + d, computed |-> FALSE,
                                     requests |-> 0, table |-> read_result(heap, cache[key])])
    /\ cache_pc' = "fetched"
    /\ UNCHANGED <<cache, scrapeVars>>
    /\ UNCHANGED <<soldVars, precoVars, mainVars, profitVars>>

\* lines 367-384: main adds 'Preço Limpo' and 'Vendidos_Numérico' to the object it
\* was handed and rewrites its 'Vendidos' (an empty table gets no column)
MainAdds ==
    /\ cache_pc = "fetched"
    /\ heap' = [heap EXCEPT ![Len(heap)] = preprocess(@)]
    /\ cache_pc' = "ready"
    /\ UNCHANGED <<now, cache, calls, scrapeVars>>
    /\ UNCHANGED <<soldVars, precoVars, mainVars, profitVars>>

NextCache == CacheMiss \/ CacheHit \/ MainAdds

SpecCache == InitCache /\ [][NextCache]_vars

(***************************************************************************)
(* Claims                                                                  *)
(***************************************************************************)
HasDigit(s) == \E i \in 1..Len(s) : s[i] \in DigitChars

\* an input that is absent, not a str, empty, whitespace-only, 'N/A' in any case,
\* or a str without a single digit
NoSoldNumber(x) ==
    IsNa(x) \/ ~IsStr(x) \/ Strip(x.s) = <<>> \/ Upper(Strip(x.s)) = NA \/ ~HasDigit(x.s)

\* C1: for every input clean_sold_data returns a non-negative integer, and it
\* returns 0 whenever the input is absent, empty or holds no number.
C1_SoldNonNegative ==
    sold_pc \in {"cleaned", "done"} =>
        /\ sold_num \in Nat
        /\ NoSoldNumber(texto) => sold_num = 0

\* digits [, digits] [space] 'mil' in any letter case ['+']: the decimal prefix
DropLast(s) == SubSeq(s, 1, Len(s) - 1)

MilPrefix(s) ==
    LET a == IF s # <<>> /\ s[Len(s)] = "+" THEN DropLast(s) ELSE s
        b == Lower(a)
        hasMil == Len(b) > 3 /\ SubSeq(b, Len(b) - 2, Len(b)) = MIL
        c == IF hasMil THEN SubSeq(b, 1, Len(b) - 3) ELSE <<>>
        d == IF c # <<>> /\ c[Len(c)] = " " THEN DropLast(c) ELSE c
        commas == {i \in 1..Len(d) : d[i] = ","}
        cut == IF commas = {} THEN Len(d) + 1 ELSE CHOOSE i \in commas : TRUE
        ip == SubSeq(d, 1, cut - 1)
        fp == SubSeq(d, cut + 1, Len(d))
    IN  [ok |-> /\ hasMil
                /\ Cardinality(commas) <= 1
                /\ ip # <<>> /\ AllDigits(ip)
                /\ AllDigits(fp)
                /\ (commas # {} => fp # <<>>),
         num |-> IF AllDigits(ip \o fp) THEN DigitsValue(ip \o fp) ELSE 0,
         den |-> Pow(10, Len(fp))]

\* C2: for every sold-count string made of a decimal prefix and the suffix 'mil',
\* clean_sold_data returns floor(prefix * 1000).
C2_MilSuffixFloor ==
    (sold_pc \in {"cleaned", "done"} /\ IsStr(texto) /\ MilPrefix(texto.s).ok) =>
        sold_num = (MilPrefix(texto.s).num * 1000) \div MilPrefix(texto.s).den

\* the integer n in decimal with '.' between groups of three digits
DotGrouped(n) ==
    LET RECURSIVE G(_)
        G(d) == IF Len(d) <= 3 THEN d
                ELSE G(SubSeq(d, 1, Len(d) - 3)) \o <<".">> \o SubSeq(d, Len(d) - 2, Len(d))
    IN  IF n < 0 THEN <<"-">> \o G(NatToStr(0 - n)) ELSE G(NatToStr(n))

\* C3: the displayed sold count is 'N/A' when the normalized sold count is 0 or
\* the input is absent, and otherwise is the normalized sold count in decimal
\* with '.' as thousands separator.
C3_DisplayDenotesSoldNum ==
    sold_pc = "done" =>
        sold_disp = IF ~IsStr(texto) \/ sold_num = 0 THEN NA ELSE DotGrouped(sold_num)

\* C4: the normalized price is absent or a non-negative number, and a string that
\* is no number after removing '.' and replacing ',' by '.' yields absent.
C4_PriceAbsentOrNonNegative ==
    preco_pc = "done" =>
        /\ preco_limpo.nan \/ preco_limpo.num >= 0
        /\ ~HasDigit(preco) => preco_limpo.nan

Sorted == main_pc \in {"sorted", "keywords", "done"}

IsRowOrder(q, n) == Len(q) = n /\ \A r \in 1..n : \E i \in 1..n : q[i] = r

PriceOf(r) == df_results[r].PrecoLimpo

PriceLeq(a, b) == a.num * b.den <= b.num * a.den

\* C5: in mode 'Menor Preço' the output is a permutation of the input, the present
\* prices are in non-decreasing order and every row with an absent price comes
\* after every row with a present price.
C5_PriceAscendingAbsentLast ==
    (Sorted /\ sort_option = "Menor Preço") =>
        /\ IsRowOrder(df_sorted, Len(df_results))
        /\ \A i, j \in 1..Len(df_sorted) :
              i < j => /\ PriceOf(df_sorted[i]).nan => PriceOf(df_sorted[j]).nan
                       /\ (~PriceOf(df_sorted[i]).nan /\ ~PriceOf(df_sorted[j]).nan)
                              => PriceLeq(PriceOf(df_sorted[i]), PriceOf(df_sorted[j]))

\* a table whose first row has no price and whose later rows have falling prices
C5_Witness ==
    /\ main_pc = "sorted"
    /\ sort_option = "Menor Preço"
    /\ Len(df_results) = 3
    /\ PriceOf(1).nan /\ ~PriceOf(2).nan /\ ~PriceOf(3).nan
    /\ ~PriceLeq(PriceOf(2), PriceOf(3))
    /\ df_sorted = <<3, 2, 1>>

SoldOf(r) == df_results[r].VendidosNumerico

\* C6: in mode 'Mais Vendido' the output is ordered by sold count descending;
\* rows of equal sold count are ordered by price ascending, those without a price
\* after those with one.
C6_SoldDescendingPriceTieBreak ==
    (Sorted /\ sort_option = "Mais Vendido") =>
        /\ IsRowOrder(df_sorted, Len(df_results))
        /\ \A i, j \in 1..Len(df_sorted) :
              i < j => /\ SoldOf(df_sorted[i]) >= SoldOf(df_sorted[j])
                       /\ SoldOf(df_sorted[i]) = SoldOf(df_sorted[j]) =>
                            /\ PriceOf(df_sorted[i]).nan => PriceOf(df_sorted[j]).nan
                            /\ (~PriceOf(df_sorted[i]).nan /\ ~PriceOf(df_sorted[j]).nan)
                                   => PriceLeq(PriceOf(df_sorted[i]), PriceOf(df_sorted[j]))

\* two rows of equal sold count, the one without a price scraped first, and a
\* better seller scraped last
C6_Witness ==
    /\ main_pc = "sorted"
    /\ sort_option = "Mais Vendido"
    /\ Len(df_results) = 3
    /\ SoldOf(1) = SoldOf(2) /\ SoldOf(3) > SoldOf(1)
    /\ PriceOf(1).nan /\ ~PriceOf(2).nan
    /\ df_sorted = <<3, 2, 1>>

RECURSIVE Gcd(_, _)
Gcd(a, b) == IF b = 0 THEN a ELSE Gcd(b, a % b)

\* the fraction q[1]/q[2] in lowest terms
Lowest(q) == <<q[1] \div Gcd(q[1], q[2]), q[2] \div Gcd(q[1], q[2])>>

\* the reference calculation for a marketplace of commission rate r percent, PV and
\* CP in cents, the amounts in hundredths of a cent: 0.07 * PV is 7 * PV, 1.85 is 18500
ReferenceHolds(f, r) ==
    IF selling_price <= cost_price
    THEN f.CustoTotal = 0 /\ f.Comissao = 0 /\ f.LucroBruto = 0 /\ f.Margem[1] = 0
    ELSE /\ f.Comissao = r * selling_price
         /\ f.CustoTotal = 100 * cost_price + 7 * selling_price + f.Comissao + 18500
         /\ f.LucroBruto = 100 * selling_price - f.CustoTotal
         /\ f.Margem[2] > 0
         /\ Lowest(f.Margem)
               = Lowest(<<100 * selling_price
                             - (100 * cost_price + 7 * selling_price + r * selling_price + 18500),
                          selling_price>>)

\* C7: calculate_profit(PV, CP) is all zeros when PV <= CP, and otherwise, per
\* marketplace of rate r (0.25, 0.18), commission = r*PV, total cost = CP + 0.07*PV
\* + commission + 1.85, gross profit = PV - total cost, margin % = 100 * gross
\* profit / PV; PV = 100, CP = 50 gives 25.00, 83.85, 16.15 and 16.15 %.
C7_ProfitReference ==
    profit_pc = "done" =>
        /\ ReferenceHolds(profit_results.MercadoLivre, 25)
        /\ ReferenceHolds(profit_results.Shopee, 18)
        /\ (selling_price = 10000 /\ cost_price = 5000) =>
              /\ profit_results.MercadoLivre.Comissao = 250000
              /\ profit_results.MercadoLivre.CustoTotal = 838500
              /\ profit_results.MercadoLivre.LucroBruto = 161500
              /\ Lowest(profit_results.MercadoLivre.Margem) = <<323, 20>>

\* the example PV = 100, CP = 50 has been calculated
C7_Witness ==
    /\ profit_pc = "done"
    /\ selling_price = 10000
    /\ cost_price = 5000
    /\ profit_results.Shopee.LucroBruto = 231500

TopRows == {df_top_vendas[i] : i \in 1..Len(df_top_vendas)}

PresentTop == {r \in TopRows : ~PriceOf(r).nan}

\* the sum of the prices of the rows R, in hundredths
RECURSIVE SumCents(_)
SumCents(R) ==
    IF R = {} THEN 0
    ELSE LET r == CHOOSE x \in R : TRUE
         IN  (PriceOf(r).num * 100) \div PriceOf(r).den + SumCents(R \ {r})

\* q rounded to hundredths, as f"{q:.2f}" shows it
ShownCents(q) == (2 * 100 * q[1] + q[2]) \div (2 * q[2])

\* C8: without a present price in the top subset analyze_cost_price reports
\* (None, None, None); otherwise it returns the mean m of the present prices,
\* m / 1.80 and m / 2.00; m = 100.00 shows 55.56 and 50.00.
C8_CostTargets ==
    main_pc = "done" =>
        IF PresentTop = {} THEN cost_report.none
        ELSE /\ ~cost_report.none
             /\ Lowest(cost_report.avg) = Lowest(<<SumCents(PresentTop), 100 * Cardinality(PresentTop)>>)
             /\ Lowest(cost_report.cost_80)
                    = Lowest(<<SumCents(PresentTop) * 10, 100 * Cardinality(PresentTop) * 18>>)
             /\ Lowest(cost_report.cost_100)
                    = Lowest(<<SumCents(PresentTop), 100 * Cardinality(PresentTop) * 2>>)
             /\ Lowest(cost_report.avg) = <<100, 1>> =>
                    /\ ShownCents(Lowest(cost_report.cost_80)) = 5556
                    /\ ShownCents(Lowest(cost_report.cost_100)) = 5000

\* a top subset with rows without a price and rows with different prices
C8_Witness ==
    /\ main_pc = "done"
    /\ ~cost_report.none
    /\ \E r \in TopRows : PriceOf(r).nan
    /\ \E r, q \in PresentTop : ~PriceLeq(PriceOf(r), PriceOf(q))
    /\ Lowest(cost_report.avg)[2] # 1

\* the word w stands at place p of the title s: between two places that are the
\* ends of s or a character that is no word character
OccursAt(w, s, p) ==
    /\ s[p] = w[1]
    /\ p + Len(w) - 1 <= Len(s)
    /\ (p = 1 \/ s[p - 1] \notin WordChars)
    /\ (p + Len(w) - 1 = Len(s) \/ s[p + Len(w)] \notin WordChars)
    /\ SubSeq(s, p, p + Len(w) - 1) = w

\* the lowercased titles of the top subset by row, and every place in them
TopTitles ==
    SubSeq([r \in 1..Len(df_results) |->
               IF r \in TopRows THEN Lower(df_results[r].Nome) ELSE <<>>], 1, Len(df_results))

TopPlaces == UNION {{<<r, p>> : p \in 1..Len(df_results[r].Nome)} : r \in TopRows}

\* C9: the top subset is the min(n, max(10, floor(0.2 n))) best-selling rows; at
\* most 10 (word, count) pairs are returned, counts non-increasing, every word a
\* lowercase a-z token of length >= 3 outside the stop words, every count the
\* number of occurrences of the word in the titles of the top subset.
C9_Keywords8020 ==
    main_pc \in {"keywords", "done"} =>
        LET n == Len(df_results)
            k == SeqMin(n, SeqMax(10, n \div 5))
            top == TopRows
            places == TopPlaces
            title == TopTitles
        IN  /\ Len(df_top_vendas) = k
            /\ Cardinality(top) = k
            /\ top \subseteq 1..n
            /\ \A r \in top : \A q \in (1..n) \ top : SoldOf(r) >= SoldOf(q)
            /\ Len(keywords_8020) <= 10
            /\ \A i \in 1..Len(keywords_8020) :
                  LET w == keywords_8020[i].word
                  IN  /\ i > 1 => keywords_8020[i - 1].count >= keywords_8020[i].count
                      /\ Len(w) >= 3
                      /\ \A c \in 1..Len(w) : w[c] \in LowerAZ
                      /\ w \notin stopwords
                      /\ keywords_8020[i].count
                            = Cardinality({x \in places : OccursAt(w, title[x[1]], x[2])})

\* a table of more than 54 rows: the fraction exceeds the floor of 10, rows are left
\* out, more than 10 words compete, and the subset's titles hold stop words
C9_Witness ==
    /\ main_pc = "keywords"
    /\ Len(df_results) > 54
    /\ Len(df_top_vendas) = 11
    /\ Len(keywords_8020) = 10
    /\ keywords_8020[1].count > keywords_8020[10].count
    /\ \E r \in TopRows : Contains(df_results[r].Nome, <<"k", "i", "t">>)
    /\ \E r \in TopRows, q \in (1..Len(df_results)) \ TopRows : SoldOf(r) = SoldOf(q)

\* a request that failed: the transport raised, or the status is outside 2xx
RequestFailure(r) == r.kind = "transport" \/ (r.kind = "http" /\ r.status \notin 200..299)

\* the records of the first n requests' pages
RECURSIVE RecordsUpTo(_)
RecordsUpTo(n) ==
    IF n = 0 THEN <<>> ELSE RecordsUpTo(n - 1) \o page_records(served[n].items, n)

\* a message box that tells the user that page k went wrong
Reported(k) ==
    \E i \in 1..Len(messages) : messages[i].kind \in {"error", "warning"} /\ messages[i].page = k

\* C10: pages are requested in order 1..pages, one request per page; when the
\* request for page k fails (transport failure or non-success HTTP status), the
\* failure is reported, neither page k nor a later page is requested after it, and
\* the returned table holds exactly the records of pages 1..k-1.
C10_AbortOnFailedPage ==
    /\ Len(requested) <= pages
    /\ \A i \in 1..Len(requested) : requested[i].page = i
    /\ \A k \in 1..Len(served) :
          RequestFailure(served[k]) =>
              /\ Len(requested) = k
              /\ scrape_pc = "returned" => (Reported(k) /\ returned = RecordsUpTo(k - 1))

\* the places of the st.error boxes among the messages
ErrorBoxes == {i \in 1..Len(messages) : messages[i].kind = "error"}

\* the failures other than an HTTP 403 that the except clause can receive
OtherFailures == {Raised(r) : r \in {q \in Responses : Raised(q).exc # "" /\ q.status # 403}}

\* C11: when a page request returns 403, the message shown to the user is
\* distinct in its wording from the generic message shown for any other transport
\* failure or non-success status.
C11_AccessDeniedMessageDistinct ==
    \A i \in ErrorBoxes :
        messages[i].status = 403 =>
            \A e \in OtherFailures :
                messages[i].text # error_message(messages[i].page, e).text

\* the calls that ran the function body for the key
Computed(key) == {i \in 1..Len(calls) : calls[i].key = key /\ calls[i].computed}

\* C12: a call whose (search_term, pages, sort_order) equals that of an earlier
\* call made within the 600-second lifetime issues no HTTP request and returns the
\* table computed by that earlier call; main's in-place additions to a returned
\* table never alter what a cache hit returns.
C12_CacheHitReturnsComputedTable ==
    /\ \A j \in 1..Len(calls) : \A i \in Computed(calls[j].key) :
          (i < j /\ calls[j].at < calls[i].at + 600) =>
              /\ calls[j].requests = 0
              /\ calls[j].table = calls[i].table
    /\ \A key \in CacheKeys : \A i \in Computed(key) :
          (\A q \in Computed(key) : q <= i) =>
              read_result(heap, cache[key]) = calls[i].table

\* a table with a record was computed, main added its columns to it, and a later
\* call of the same arguments was a hit whose table main changed as well
C12_Witness ==
    /\ cache_pc = "ready"
    /\ \E j \in 1..Len(calls) : \E i \in Computed(calls[j].key) :
          /\ i < j
          /\ ~calls[j].computed
          /\ calls[i].table # <<>>
          /\ heap[i] # calls[i].table
          /\ heap[j] # calls[j].table

====
